---- MODULE Spec2Model ----
(***************************************************************************)
(* Hillslope diffusion notebook (geomorphology_exercises/                  *)
(* hillslope-diffusion.ipynb): a raster grid whose elevation field is      *)
(* driven by uniform uplift and relaxed by a linear diffuser in a counted  *)
(* time loop, compared with the analytical steady-state parabola.          *)
(*                                                                         *)
(* Units.  The notebook is unit free ("Landlab does not make any           *)
(* assumptions about units").  All quantities are integers in the units    *)
(*   horizontal length 2.5 m, time 625 yr, diffusivity 0.01 m2/yr,         *)
(*   uplift rate 0.0001 m/yr, elevation 0.0625 m,                          *)
(* in which the shipped values are dx = 2, D = 1, uplift_rate = 1,         *)
(* runtime = 800, dt = 2, uplift_per_step = 2.                             *)
(*                                                                         *)
(* Elevations.  The field is the dyadic rational z_vals[n] / z_den, with   *)
(* z_den a power of two kept as small as possible.  Arithmetic is exact    *)
(* while z_den <= MaxDen; beyond that a value is rounded toward minus      *)
(* infinity to a multiple of 1 / MaxDen (finite precision, as a float).    *)
(***************************************************************************)
EXTENDS Integers, Naturals, Sequences, FiniteSets, TLC

VARIABLES
    number_of_node_rows,     \* mg.shape[0]
    number_of_node_columns,  \* mg.shape[1]
    z_vals,                  \* numerators of mg.at_node['topographic__elevation']
    z_den,                   \* their common denominator
    D,                       \* the notebook global D
    lin_diffuse,             \* the diffusivity the LinearDiffuser object was built with
    uplift_rate,
    runtime,
    dt,
    nt,
    time_counter,
    uplift_per_step,
    range_nt,                \* length of range(nt), evaluated when the loop cell starts
    i,                       \* iterations of the current execution of the loop cell
    pc,                      \* "idle" before the loop cell has run, "loop" while it runs, "done" after
    plot_model,              \* what the checkpoint block last handed to plot(): <<values, den>>
    plot_count,              \* checkpoint blocks executed by the current execution of the loop cell
    steps_total,             \* history: loop iterations since the grid was created
    cells_rerun,             \* history: a cell other than the loop cell was re-run
    unstable_steps           \* history: iterations executed with dt above the stability bound

vars == <<number_of_node_rows, number_of_node_columns, z_vals, z_den, D,
          lin_diffuse, uplift_rate, runtime, dt, nt, time_counter,
          uplift_per_step, range_nt, i, pc, plot_model, plot_count, steps_total,
          cells_rerun, unstable_steps>>

----------------------------------------------------------------------------
(* Bounds of the model *)

MaxRows == 5
MaxCols == 4
MaxRuntime == 3
MaxTotalSteps == 3
MaxLongSteps == 20
FracBits == 19

RowsSet == 3..MaxRows
ColsSet == {MaxCols}
DSet == {1, 2}
USet == {0, 1}
RuntimeSet == 1..MaxRuntime

RECURSIVE Pow2(_)
Pow2(k) == IF k = 0 THEN 1 ELSE 2 * Pow2(k - 1)

MaxDen == Pow2(FracBits)

----------------------------------------------------------------------------
(* The grid: RasterModelGrid((rows, cols), dx), node ids row-major from    *)
(* the south-west corner.                                                  *)

dx == 2

Nodes(rows, cols) == 0..(rows * cols - 1)
RowOf(n, cols) == n \div cols
ColOf(n, cols) == n % cols

\* mg.set_closed_boundaries_at_grid_edges(East, North, West, South)
ClosedEdges == <<TRUE, FALSE, TRUE, FALSE>>

OnEdge(n, rows, cols) ==
    \/ RowOf(n, cols) = 0 \/ RowOf(n, cols) = rows - 1
    \/ ColOf(n, cols) = 0 \/ ColOf(n, cols) = cols - 1

IsClosed(n, rows, cols) ==
    \/ ClosedEdges[1] /\ ColOf(n, cols) = cols - 1
    \/ ClosedEdges[2] /\ RowOf(n, cols) = rows - 1
    \/ ClosedEdges[3] /\ ColOf(n, cols) = 0
    \/ ClosedEdges[4] /\ RowOf(n, cols) = 0

IsFixedValue(n, rows, cols) == OnEdge(n, rows, cols) /\ ~IsClosed(n, rows, cols)

IsCore(n, rows, cols) == ~OnEdge(n, rows, cols)

core_nodes(rows, cols) == {n \in Nodes(rows, cols) : IsCore(n, rows, cols)}

\* Links join a node to its east and to its north neighbour: <<tail, head>>.
Links(rows, cols) ==
    {<<a, a + 1>> : a \in {n \in Nodes(rows, cols) : ColOf(n, cols) < cols - 1}}
    \cup
    {<<a, a + cols>> : a \in {n \in Nodes(rows, cols) : RowOf(n, cols) < rows - 1}}

\* A link carries flux unless one of its ends is closed or both are boundary.
ActiveLinks(rows, cols) ==
    {l \in Links(rows, cols) :
        /\ ~IsClosed(l[1], rows, cols)
        /\ ~IsClosed(l[2], rows, cols)
        /\ (IsCore(l[1], rows, cols) \/ IsCore(l[2], rows, cols))}

----------------------------------------------------------------------------
(* Arithmetic helpers *)

RECURSIVE GCD(_, _)
GCD(a, b) == IF b = 0 THEN a ELSE GCD(b, a % b)

RECURSIVE SumOver(_, _)
SumOver(S, f) ==
    IF S = {} THEN 0
    ELSE LET x == CHOOSE y \in S : TRUE
         IN  f[x] + SumOver(S \ {x}, f)

AllEven(f) == \A n \in DOMAIN f : f[n] % 2 = 0

\* Bring <<numerators, denominator>> to lowest terms, then to the precision.
RECURSIVE Normalise(_, _)
Normalise(f, den) ==
    IF den > MaxDen THEN Normalise([n \in DOMAIN f |-> f[n] \div 2], den \div 2)
    ELSE IF den > 1 /\ AllEven(f)
         THEN Normalise([n \in DOMAIN f |-> f[n] \div 2], den \div 2)
         ELSE <<f, den>>

----------------------------------------------------------------------------
(* The parameter cell *)

\* dt = 0.5 * mg.dx * mg.dx / D
StableDt(d) == (dx * dx) \div (2 * d)

\* variant: one step too many
NumberOfStepsPlusOne(rt, step) == rt \div step + 1

\* nt = int(runtime // dt)
NumberOfSteps(rt, step) == rt \div step

\* variants: the rate and the step added instead of multiplied; the step left out
UpliftPerStepSum(rate, step) == rate + step
UpliftPerStepNoDt(rate, step) == rate

\* uplift_per_step = uplift_rate * dt
UpliftPerStep(rate, step) == rate * step

----------------------------------------------------------------------------
(* The analytical solution cell *)

\* divide_loc = (mg.number_of_node_rows*mg.dx-mg.dx)/2
divide_loc(rows) == (rows * dx - dx) \div 2

\* half_width = (mg.number_of_node_rows*mg.dx-mg.dx)/2
half_width(rows) == (rows * dx - dx) \div 2

\* zs = (uplift_rate/(2*D)) * (half_width^2 - (ys - divide_loc)^2), at the
\* position y; the value is ZsNum(...) / ZsDen(d).
ZsNum(y, rows, rate) ==
    rate * (half_width(rows) * half_width(rows)
            - (y - divide_loc(rows)) * (y - divide_loc(rows)))
ZsDen(d) == 2 * d

\* mg.node_y of a node
node_y(n, cols) == RowOf(n, cols) * dx

----------------------------------------------------------------------------
(* The loop body *)

\* variant: the uplift added at every node, boundary nodes included
AddUpliftAllNodes(z, den, ups, rows, cols) ==
    [n \in Nodes(rows, cols) |-> z[n] + ups * den]

\* mg['node']['topographic__elevation'][mg.core_nodes] += uplift_per_step
AddUplift(z, den, ups, rows, cols) ==
    LET core == core_nodes(rows, cols)
    IN  [n \in Nodes(rows, cols) |-> IF n \in core THEN z[n] + ups * den ELSE z[n]]

\* dt * D / dx^2 in lowest terms
RateNum(step, d) == (step * d) \div GCD(step * d, dx * dx)
RateDen(step, d) == (dx * dx) \div GCD(step * d, dx * dx)

\* lin_diffuse.run_one_step(dt): one explicit finite-volume step.  On every
\* active link the unit flux is -d * (z[head] - z[tail]) / dx and the total
\* flux is that times the face width dx; a core node gains, per unit time,
\* the flux entering minus the flux leaving, divided by the cell area dx^2.
\* The numerators returned are over the denominator den * RateDen(step, d).
LinkFluxNum(z, l, step, d) == -(RateNum(step, d) * (z[l[2]] - z[l[1]]))

run_one_step(z, step, d, rows, cols) ==
    LET act == ActiveLinks(rows, cols)
        core == core_nodes(rows, cols)
        q == [l \in act |-> LinkFluxNum(z, l, step, d)]
        inflow(n) == SumOver({<<n - 1, n>>, <<n - cols, n>>} \cap act, q)
        outflow(n) == SumOver({<<n, n + 1>>, <<n, n + cols>>} \cap act, q)
    IN  [n \in Nodes(rows, cols) |->
            IF n \in core
            THEN z[n] * RateDen(step, d) + inflow(n) - outflow(n)
            ELSE z[n] * RateDen(step, d)]

\* time_counter += dt
AdvanceTime(tc, step) == tc + step

\* variant: the two lines in the other order, diffusion before uplift
LoopBodyDiffuseFirst(z, den, ups, step, d, rows, cols) ==
    LET diffused == Normalise(run_one_step(z, step, d, rows, cols), den * RateDen(step, d))
    IN  Normalise(AddUplift(diffused[1], diffused[2], ups, rows, cols), diffused[2])

\* The first two lines of the loop: uplift, then diffusion of the uplifted field.
LoopBody(z, den, ups, step, d, rows, cols) ==
    Normalise(run_one_step(AddUplift(z, den, ups, rows, cols), step, d, rows, cols),
              den * RateDen(step, d))

\* variant: one iteration too many
InRangeInclusive(k, n) == k <= n

\* for i in range(nt): the loop continues while the index is below the length
InRange(k, n) == k < n

\* variant: every iteration from the midpoint on
IsCheckpointFrom(k, n) == k >= n \div 2

\* if i == int(nt // 2)
IsCheckpoint(k, n) == k = n \div 2

\* dt <= 0.5 * dx^2 / d
WithinStabilityBound(step, d) == 2 * step * d <= dx * dx

----------------------------------------------------------------------------
(* Actions *)

Zeros(rows, cols) == [n \in Nodes(rows, cols) |-> 0]

\* The state after every cell above the loop cell has run once, top to bottom.
SetUp(rows, cols, d, u, rt) ==
    /\ number_of_node_rows = rows
    /\ number_of_node_columns = cols
    /\ z_vals = Zeros(rows, cols)
    /\ z_den = 1
    /\ D = d
    /\ lin_diffuse = d
    /\ uplift_rate = u
    /\ runtime = rt
    /\ dt = StableDt(d)
    /\ nt = NumberOfSteps(rt, StableDt(d))
    /\ time_counter = 0
    /\ uplift_per_step = UpliftPerStep(u, StableDt(d))
    /\ range_nt = 0
    /\ i = 0
    /\ pc = "idle"
    /\ plot_model = <<Zeros(rows, cols), 1>>
    /\ plot_count = 0
    /\ steps_total = 0
    /\ cells_rerun = FALSE
    /\ unstable_steps = 0

Init ==
    \E rows \in RowsSet, cols \in ColsSet, d \in DSet, u \in USet, rt \in RuntimeSet :
        SetUp(rows, cols, d, u, rt)

\* One iteration of "for i in range(nt)".
LoopStep ==
    /\ pc = "loop"
    /\ InRange(i, range_nt)
    /\ LET new == LoopBody(z_vals, z_den, uplift_per_step, dt, lin_diffuse,
                           number_of_node_rows, number_of_node_columns)
       IN  /\ z_vals' = new[1]
           /\ z_den' = new[2]
           /\ IF IsCheckpoint(i, nt)
              THEN /\ plot_model' = new
                   /\ plot_count' = plot_count + 1
              ELSE UNCHANGED <<plot_model, plot_count>>
    /\ time_counter' = AdvanceTime(time_counter, dt)
    /\ i' = i + 1
    /\ pc' = IF InRange(i + 1, range_nt) THEN "loop" ELSE "done"
    /\ steps_total' = steps_total + 1
    /\ unstable_steps' = IF WithinStabilityBound(dt, lin_diffuse)
                         THEN unstable_steps ELSE unstable_steps + 1
    /\ UNCHANGED <<number_of_node_rows, number_of_node_columns, D, lin_diffuse,
                   uplift_rate, runtime, dt, nt, uplift_per_step, range_nt,
                   cells_rerun>>

\* variant: the loop cell starting the clock again
RunLoopCellResetting(cap) ==
    /\ pc # "loop"
    /\ steps_total + nt <= cap
    /\ range_nt' = nt
    /\ i' = 0
    /\ pc' = IF InRange(0, nt) THEN "loop" ELSE "done"
    /\ plot_count' = 0
    /\ time_counter' = 0
    /\ UNCHANGED <<number_of_node_rows, number_of_node_columns, z_vals, z_den, D,
                   lin_diffuse, uplift_rate, runtime, dt, nt,
                   uplift_per_step, plot_model, steps_total, cells_rerun,
                   unstable_steps>>

\* Running the cell with the time loop, for the first time or again: nothing
\* is reset but the loop index.
RunLoopCell(cap) ==
    /\ pc # "loop"
    /\ steps_total + nt <= cap
    /\ range_nt' = nt
    /\ i' = 0
    /\ pc' = IF InRange(0, nt) THEN "loop" ELSE "done"
    /\ plot_count' = 0
    /\ UNCHANGED <<number_of_node_rows, number_of_node_columns, z_vals, z_den, D,
                   lin_diffuse, uplift_rate, runtime, dt, nt, time_counter,
                   uplift_per_step, plot_model, steps_total, cells_rerun,
                   unstable_steps>>

\* Re-running the cell "D = ...; lin_diffuse = LinearDiffuser(mg, linear_diffusivity=D)"
\* after editing D.
RerunDiffuserCell ==
    /\ pc # "loop"
    /\ \E d \in DSet :
        /\ D' = d
        /\ lin_diffuse' = d
    /\ cells_rerun' = TRUE
    /\ UNCHANGED <<number_of_node_rows, number_of_node_columns, z_vals, z_den,
                   uplift_rate, runtime, dt, nt, time_counter, uplift_per_step,
                   range_nt, i, pc, plot_model, plot_count, steps_total, unstable_steps>>

\* Re-running the parameter cell after editing uplift_rate and runtime.
RerunParameterCell ==
    /\ pc # "loop"
    /\ \E u \in USet, rt \in RuntimeSet :
        /\ uplift_rate' = u
        /\ runtime' = rt
        /\ dt' = StableDt(D)
        /\ nt' = NumberOfSteps(rt, StableDt(D))
        /\ uplift_per_step' = UpliftPerStep(u, StableDt(D))
    /\ time_counter' = 0
    /\ cells_rerun' = TRUE
    /\ UNCHANGED <<number_of_node_rows, number_of_node_columns, z_vals, z_den, D,
                   lin_diffuse, range_nt, i, pc, plot_model, plot_count,
                   steps_total, unstable_steps>>

Next ==
    \/ LoopStep
    \/ RunLoopCell(MaxTotalSteps)
    \/ RerunDiffuserCell
    \/ RerunParameterCell

Spec == Init /\ [][Next]_vars

\* Executions of the loop cell only: the cell runs to its end once started.
NextRun ==
    \/ LoopStep
    \/ RunLoopCell(MaxTotalSteps)

RunSpec == Init /\ [][NextRun]_vars /\ WF_vars(LoopStep)

\* Uniform uplift of the flat zero field, the loop cell run again and again.
InitLong ==
    \E rows \in RowsSet, cols \in ColsSet, d \in DSet, u \in USet \ {0}, rt \in RuntimeSet :
        /\ NumberOfSteps(rt, StableDt(d)) >= 1
        /\ SetUp(rows, cols, d, u, rt)

NextLong ==
    \/ LoopStep
    \/ RunLoopCell(MaxLongSteps)

LongSpec == InitLong /\ [][NextLong]_vars /\ WF_vars(NextLong)

\* The notebook as shipped: 41 x 5 nodes, dx = 5 m, D = 0.01 m2/yr,
\* uplift_rate = 0.0001 m/yr, runtime = 500000 yr, run once from top to bottom.
ShippedRows == 41
ShippedCols == 5
ShippedD == 1
ShippedUpliftRate == 1
ShippedRuntime == 800

InitShipped == SetUp(ShippedRows, ShippedCols, ShippedD, ShippedUpliftRate, ShippedRuntime)

NextShipped ==
    \/ LoopStep
    \/ RunLoopCell(NumberOfSteps(ShippedRuntime, StableDt(ShippedD)))

ShippedSpec == InitShipped /\ [][NextShipped]_vars /\ WF_vars(NextShipped)

----------------------------------------------------------------------------
(* Properties *)

Rows == number_of_node_rows
Cols == number_of_node_columns
AllNodes == Nodes(Rows, Cols)
CoreSet == {n \in AllNodes : 0 < RowOf(n, Cols) /\ RowOf(n, Cols) < Rows - 1
                              /\ 0 < ColOf(n, Cols) /\ ColOf(n, Cols) < Cols - 1}
\* the nodes of the north and south edge rows that are not on a closed edge
OpenEdgeNodes == {n \in AllNodes : /\ RowOf(n, Cols) \in {0, Rows - 1}
                                   /\ 0 < ColOf(n, Cols) /\ ColOf(n, Cols) < Cols - 1}
ClosedEdgeNodes == {n \in AllNodes : ColOf(n, Cols) \in {0, Cols - 1}}

\* the north, south, east and west neighbours of n that exist on the grid
Neighbours(n) ==
    {k \in AllNodes :
        \/ k = n + Cols \/ k = n - Cols
        \/ (k = n + 1 /\ RowOf(k, Cols) = RowOf(n, Cols))
        \/ (k = n - 1 /\ RowOf(k, Cols) = RowOf(n, Cols))}

IsIteration == i' = i + 1

\* C1: every node of the north and south (open, fixed-value) edge rows holds
\* its initial elevation, zero, in every reachable state.
C1_OpenBoundaryFixed == \A n \in OpenEdgeNodes : z_vals[n] = 0

C1_Witness ==
    /\ steps_total >= 2
    /\ \E n \in CoreSet : z_vals[n] > 0
    /\ \A n \in OpenEdgeNodes : z_vals[n] = 0

\* C2: the loop runs exactly nt = floor(runtime / dt) iterations: the index
\* stays within 0..nt, the cell is running exactly while the index is below
\* the length of the range, the index only moves by +1 (or back to 0 when the
\* cell is started again), every iteration advances the time by dt, and a
\* running loop always reaches done.
C2_Inv ==
    /\ nt = runtime \div dt
    /\ 0 <= i /\ i <= range_nt
    /\ (pc = "loop") <=> (i < range_nt)
    /\ (pc = "idle") => (steps_total = 0 /\ time_counter = 0)
    /\ (pc # "idle") => (range_nt = nt)
    /\ (pc = "done") => (i = nt)
    /\ pc \in {"idle", "loop", "done"}

C2_Step ==
    /\ i' = i + 1 \/ i' = i \/ (i' = 0 /\ pc # "loop" /\ range_nt' = nt)
    /\ IsIteration => /\ pc = "loop"
                      /\ steps_total' = steps_total + 1
                      /\ time_counter' = time_counter + dt
                      /\ range_nt' = range_nt
    /\ (pc = "loop") => IsIteration

C2_Terminates == [](C2_Inv) /\ [][C2_Step]_vars /\ ((pc = "loop") ~> (pc = "done" /\ i = range_nt))

C2_Witness == pc = "done" /\ i = nt /\ range_nt = nt /\ nt >= 2 /\ steps_total = nt

\* C3: one iteration takes the field z to the reference update: w = z plus
\* uplift_rate * dt on the core nodes, then for every core node
\* w_i + dt * D * (sum over the existing neighbours k that are not closed of
\* (w_k - w_i)) / dx^2, every boundary node unchanged.
C3_Uplifted ==
    [n \in AllNodes |-> IF n \in CoreSet THEN z_vals[n] + uplift_rate * dt * z_den
                        ELSE z_vals[n]]

\* numerators over the denominator z_den * dx^2
C3_Reference ==
    LET w == C3_Uplifted
    IN  [n \in AllNodes |->
            IF n \in CoreSet
            THEN w[n] * dx * dx
                 + dt * lin_diffuse
                   * SumOver({k \in Neighbours(n) : k \notin ClosedEdgeNodes},
                             [k \in AllNodes |-> w[k] - w[n]])
            ELSE w[n] * dx * dx]

C3_ReferenceUpdate ==
    [][IsIteration =>
        \A n \in AllNodes : z_vals'[n] * z_den * dx * dx = C3_Reference[n] * z_den']_vars

C3_Witness ==
    /\ steps_total >= 2
    /\ Rows >= 5
    /\ uplift_rate > 0
    /\ \E n \in CoreSet : n + Cols \in CoreSet /\ z_vals[n] # z_vals[n + Cols] /\ z_vals[n] > 0

\* C4: no iteration is ever executed with dt above 0.5 * dx^2 / D for the D
\* the diffuser was built with.
C4_OnlyStableSteps == unstable_steps = 0

\* C5: with zero uplift since the flat zero field was created, every node
\* holds exactly its initial elevation.
C5_FlatStaysFlat ==
    (cells_rerun = FALSE /\ uplift_rate = 0) =>
        (z_den = 1 /\ \A n \in AllNodes : z_vals[n] = 0)

C5_Witness ==
    /\ cells_rerun = FALSE /\ uplift_rate = 0 /\ steps_total >= 2
    /\ \A n \in AllNodes : z_vals[n] = 0

\* C8: over one iteration, cell area times the change of the summed core
\* elevation equals the uplift volume added to the core minus dt times the
\* total flux through the faces between a core node and an open boundary node.
C8_OpenFaces == {f \in CoreSet \X OpenEdgeNodes : f[2] \in Neighbours(f[1])}

\* all terms multiplied by z_den * z_den'
C8_MassBalance ==
    [][IsIteration =>
        LET w == C3_Uplifted
            before == SumOver(CoreSet, z_vals)
            after == SumOver(CoreSet, z_vals')
            uplifted == Cardinality(CoreSet) * uplift_rate * dt * dx * dx
            outflux == SumOver(C8_OpenFaces,
                               [f \in C8_OpenFaces |-> lin_diffuse * (w[f[1]] - w[f[2]])])
        IN  (after * z_den - before * z_den') * dx * dx
              = uplifted * z_den * z_den' - dt * outflux * z_den']_vars

C8_Witness ==
    /\ steps_total >= 2
    /\ uplift_rate > 0
    /\ \E f \in C8_OpenFaces : z_vals[f[1]] > 0
    /\ \E n \in CoreSet : n + 1 \in CoreSet

C9_Inv ==
    /\ plot_count = IF range_nt >= 1 /\ i > range_nt \div 2 THEN 1 ELSE 0
    /\ (pc = "done") => (plot_count = IF range_nt >= 1 THEN 1 ELSE 0)

C9_Step ==
    /\ (plot_count' = plot_count + 1) =>
          /\ IsIteration /\ i = range_nt \div 2
          /\ plot_model' = <<z_vals', z_den'>>
          /\ time_counter' = time_counter + dt
    /\ (plot_model' # plot_model) => (plot_count' = plot_count + 1)

C10_Inv == (cells_rerun = FALSE) => (time_counter = dt * steps_total)

C10_Step ==
    (pc # "loop" /\ pc' # pc) =>
        /\ i' = 0
        /\ z_vals' = z_vals /\ z_den' = z_den
        /\ time_counter' = time_counter
        /\ range_nt' = nt

C10_TimeCarriesOver == [](C10_Inv) /\ [][C10_Step]_vars

C10_Witness ==
    /\ cells_rerun = FALSE /\ pc = "done" /\ nt >= 1
    /\ steps_total >= 2 * nt
    /\ time_counter = dt * steps_total
    /\ \E n \in CoreSet : z_vals[n] > 0

\* |a / ad - b / bd| <= e / ed
Within(a, ad, b, bd, e, ed) ==
    LET diff == a * bd - b * ad
    IN  (IF diff < 0 THEN -diff ELSE diff) * ed <= e * ad * bd

\* the change the next iteration would make at node n, over z_den * RateDen
C6_NextChangeNum(n) ==
    run_one_step(AddUplift(z_vals, z_den, uplift_per_step, Rows, Cols),
                 dt, lin_diffuse, Rows, Cols)[n]
    - z_vals[n] * RateDen(dt, lin_diffuse)

\* tolerance: a quarter of the uplift of one step
C6_Settled ==
    \A n \in CoreSet :
        Within(C6_NextChangeNum(n), z_den * RateDen(dt, lin_diffuse), 0, 1,
               uplift_rate * dt, 4)

C6_NearAnalytical ==
    \A n \in CoreSet :
        Within(z_vals[n], z_den, ZsNum(node_y(n, Cols), Rows, uplift_rate), ZsDen(D),
               uplift_rate * dt, 4)

C6_NearShifted ==
    \A n \in CoreSet :
        Within(z_vals[n], z_den,
               ZsNum(node_y(n, Cols), Rows, uplift_rate) - uplift_rate * dt * ZsDen(D),
               ZsDen(D), uplift_rate * dt, 4)

\* C6 as stated: a field whose per-step change has vanished (within the
\* tolerance) is within the tolerance of the analytical profile.
C6_SettledOnAnalytical == (steps_total >= 1 /\ C6_Settled) => C6_NearAnalytical

\* C6 amended: at every core node the elevation never exceeds the analytical
\* profile minus uplift_rate * dt, and repeated steps bring the field, for
\* good, to within the tolerance of that shifted profile with a per-step
\* change within the tolerance.
C6_BelowShifted ==
    \A n \in CoreSet :
        z_vals[n] * ZsDen(D)
          <= (ZsNum(node_y(n, Cols), Rows, uplift_rate) - uplift_rate * dt * ZsDen(D)) * z_den

C6_ConvergesToShifted == [](C6_BelowShifted) /\ <>[](C6_Settled /\ C6_NearShifted)

C6_Witness ==
    /\ Rows >= 5 /\ steps_total >= 16
    /\ C6_Settled /\ C6_NearShifted /\ ~C6_NearAnalytical
    /\ \E n \in CoreSet : z_vals[n] > 0

\* whole elevation units (0.0625 m) of the middle column, row r
C7_Elev(r) == z_vals[r * Cols + 2] \div z_den
C7_Zs(r) == ZsNum(r * dx, Rows, uplift_rate) \div ZsDen(D)
C7_DivideRow == divide_loc(Rows) \div dx
C7_Peak == (uplift_rate * half_width(Rows) * half_width(Rows)) \div (2 * D)

\* C7 as stated: dt is 1250 yr, nt is 400 and, after the run, the middle
\* column is within 5 % of the analytical peak of the analytical profile at
\* every row, the divide row included.
C7_MatchesAnalytical ==
    /\ dt = 2 /\ nt = 400
    /\ (pc = "done") =>
          \A r \in 0..(Rows - 1) :
              /\ C7_Elev(r) - C7_Zs(r) <= C7_Peak \div 20
              /\ C7_Zs(r) - C7_Elev(r) <= C7_Peak \div 20

\* C7 amended: dt is 1250 yr, nt is 400 and, after the run, the middle column
\* is symmetric about the divide row, rises strictly from the open edges to
\* the divide row, lies below the analytical profile at every core row, and
\* its peak at the divide row is between 65 % and 75 % of (U/2D) W^2.
C7_ShortOfAnalytical ==
    /\ dt = 2 /\ nt = 400
    /\ C7_Peak = 800 /\ C7_DivideRow = 20
    /\ (pc = "done") =>
          /\ steps_total = 400 /\ time_counter = 800
          /\ \A r \in 0..(Rows - 1) : z_vals[r * Cols + 2] = z_vals[(Rows - 1 - r) * Cols + 2]
          /\ \A r \in 0..(C7_DivideRow - 1) : z_vals[r * Cols + 2] < z_vals[(r + 1) * Cols + 2]
          /\ \A r \in 1..(Rows - 2) : C7_Elev(r) < C7_Zs(r)
          /\ 100 * C7_Elev(C7_DivideRow) >= 65 * C7_Peak
          /\ 100 * C7_Elev(C7_DivideRow) <= 75 * C7_Peak

C7_Witness ==
    /\ pc = "done" /\ Rows = 41 /\ Cols = 5 /\ steps_total = 400
    /\ C7_Elev(C7_DivideRow) > 0

====
